---- MODULE Spec2Model ----
(***************************************************************************)
(* Model of the earthquake visualizer's acquisition core:                  *)
(*   EarthquakeMap.fetchEarthquakes (chunked fetch orchestrator and        *)
(*   filtering pipeline), the useEffect that starts it, and the date       *)
(*   range handler of EarthquakeFilters that produces its TimeRange.       *)
(*                                                                         *)
(* Dates are JavaScript Date objects: an instant, kept here as the local   *)
(* wall-clock pair (day number, millisecond of the day).  getMonth,        *)
(* setMonth, setDate and setHours work on local time; toISOString renders  *)
(* the instant in UTC, so formatDate depends on the zone offset tz.        *)
(* Magnitudes are in tenths (2.0 is 20), depths in kilometres.             *)
(***************************************************************************)
EXTENDS Integers, Sequences, FiniteSets, TLC

VARIABLES
    props,           \* Index state handed to EarthquakeMap as props
    tz,              \* zone offset of the browser, minutes east of UTC
    orch,            \* the fetchEarthquakes invocations, in start order
    net,             \* requests in flight: [orch, k]
    earthquakes,     \* EarthquakeMap state: the working set
    loading,         \* EarthquakeMap state
    error,           \* EarthquakeMap state: Null or the message
    earthquakeCount, \* Index state fed by onEarthquakeCountUpdate
    newestResult,    \* history: what the newest invocation handed to setEarthquakes
    rawInput,        \* history: the features the last publishing invocation had fetched
    replaced,        \* history: the working set the last publish overwrote
    selectedEq,      \* EarthquakeMap state: the clicked event, or NoEvent
    insightsOpen,    \* EarthquakeMap state: the insights dialog is open
    nearestFromApi,  \* EarthquakeMap state: the regional ranking, or NoList
    regional,        \* regional queries in flight: the events whose click sent them
    lastQuery,       \* history: the click and the response nearestFromApi was ranked from
    visualizeOpen,   \* Index state: the charts dialog is open
    data,            \* EarthquakeVisualize state: the events the charts aggregate
    vizLoading,      \* EarthquakeVisualize state: loading
    vizNet,          \* fetchData requests in flight, in start order
    showPlates,      \* Index state: the plate overlay is switched on
    plateData,       \* EarthquakeMap state: the overlay data, or Null
    plateNet,        \* fetchPlates requests in flight: [cancelled]
    plateRequests    \* history: how many overlay requests were sent

insights == <<selectedEq, insightsOpen, nearestFromApi, regional, lastQuery>>
visualize == <<visualizeOpen, data, vizLoading, vizNet>>
plates == <<showPlates, plateData, plateNet, plateRequests>>

vars == <<props, tz, orch, net, earthquakes, loading, error, earthquakeCount, newestResult,
          rawInput, replaced, selectedEq, insightsOpen, nearestFromApi, regional, lastQuery,
          visualizeOpen, data, vizLoading, vizNet, showPlates, plateData, plateNet,
          plateRequests>>

\* absent values: null error, null Date, undefined range, undefined count, mag null,
\* no selected event, null regional ranking
Null == "null"
NoDate == [day |-> 0 - 1, t |-> 0]
NoRange == <<>>
NoCount == 0 - 1
NoMag == 0 - 1000
NoEvent == [id |-> 0, mag |-> 0, depth |-> 0, lat |-> 0, lon |-> 0]
NoList == <<[id |-> 0 - 1, mag |-> 0, depth |-> 0, lat |-> 0, lon |-> 0]>>
NoQuery == [base |-> NoEvent, feats |-> <<>>]

\* ------------------------------------------------------------------ bounds
MaxFetch == 2
MaxSpanDays == 160
MaxLen == 2

\* --------------------------------------------------------------- calendar
Years == 2023..2026
MsPerDay == 24 * 60 * 60 * 1000
EndOfDayMs == ((23 * 60 + 59) * 60 + 59) * 1000 + 999
TzOffsets == {0 - 300, 0, 330}

IsLeap(y) == (y % 4 = 0 /\ y % 100 # 0) \/ y % 400 = 0

DaysInMonth(y, m) ==
    IF m = 1 THEN (IF IsLeap(y) THEN 29 ELSE 28)
    ELSE IF m \in {3, 5, 8, 10} THEN 30 ELSE 31

DaysInYear(y) == IF IsLeap(y) THEN 366 ELSE 365

RECURSIVE DaysBeforeYear(_)
DaysBeforeYear(y) ==
    IF y <= 2023 THEN 0 ELSE DaysBeforeYear(y - 1) + DaysInYear(y - 1)

RECURSIVE DaysBeforeMonth(_, _)
DaysBeforeMonth(y, m) ==
    IF m <= 0 THEN 0 ELSE DaysBeforeMonth(y, m - 1) + DaysInMonth(y, m - 1)

\* day number of the first of each month
MonthStart ==
    [y \in Years |-> [m \in 0..11 |-> DaysBeforeYear(y) + DaysBeforeMonth(y, m)]]

\* day number of year y, month m (0-based, may exceed 11), day d (may exceed the month)
DayNumber(y, m, d) == MonthStart[y + (m \div 12)][m % 12] + d - 1

Days == 0..(DaysBeforeYear(2026) + DaysInYear(2026) - 1)

\* year, month (0-based) and day of month of each day number
Calendar ==
    [n \in Days |->
        LET y == CHOOSE yy \in Years :
                    MonthStart[yy][0] <= n /\ n < MonthStart[yy][0] + DaysInYear(yy)
            m == CHOOSE mm \in 0..11 :
                    MonthStart[y][mm] <= n /\ n < MonthStart[y][mm] + DaysInMonth(y, mm)
        IN  <<y, m, n - MonthStart[y][m] + 1>>]

YearOfDay(n) == Calendar[n][1]
MonthOfDay(n) == Calendar[n][2]
DateOfDay(n) == Calendar[n][3]

\* --------------------------------------------------------------- JS Date
MkDate(y, m, d) == [day |-> DayNumber(y, m, d), t |-> 0]

getFullYear(D) == YearOfDay(D.day)
getMonth(D) == MonthOfDay(D.day)
getDate(D) == DateOfDay(D.day)

setMonth(D, m) ==
    [D EXCEPT !.day = DayNumber(getFullYear(D), m, getDate(D))]

setDate(D, d) ==
    [D EXCEPT !.day = DayNumber(getFullYear(D), getMonth(D), d)]

setHoursEndOfDay(D) == [D EXCEPT !.t = EndOfDayMs]

DateLess(a, b) == a.day < b.day \/ (a.day = b.day /\ a.t < b.t)

\* the UTC calendar day of the instant
UtcDay(D) == D.day + ((D.t - tz * 60 * 1000) \div MsPerDay)

\* "YYYY-MM-DD" as <<year, month 1..12, day>>
Ymd(n) == <<YearOfDay(n), MonthOfDay(n) + 1, DateOfDay(n)>>

formatDate(D) == Ymd(UtcDay(D))

monthDiff(startDate, endDate) ==
    (getFullYear(endDate) - getFullYear(startDate)) * 12
        + (getMonth(endDate) - getMonth(startDate))

\* ------------------------------------------------------------ event feed
\* a feature of the remote payload: id, properties.mag (tenths of a unit) and
\* geometry.coordinates (lon and lat in whole degrees, depth in km)
Shallow == [id |-> 1, mag |-> 15, depth |-> 10, lat |-> 0, lon |-> 1]
Deep == [id |-> 2, mag |-> 45, depth |-> 300, lat |-> 1, lon |-> 0]

\* an event on the bounds of MagRanges and DepthRanges, and one whose mag is null
Edge == [id |-> 3, mag |-> 20, depth |-> 100, lat |-> 0, lon |-> 0]
Unrated == [id |-> 4, mag |-> NoMag, depth |-> 10, lat |-> 2, lon |-> 0]
FilterEvents == {Shallow, Deep, Edge, Unrated}

\* events of one region on the whole-degree grid; 31..33 are aftershocks that
\* share the coordinates of an earlier event
Site(id, lat, lon) == [id |-> id, mag |-> 30, depth |-> 10, lat |-> lat, lon |-> lon]
Cluster ==
    << Site(22, 2, 2), Shallow, Site(11, 1, 1), Deep, Site(12, 1, 2), Edge,
       Site(20, 2, 0), Site(21, 2, 1), Site(13, 0, 2), Site(31, 1, 1),
       Site(32, 0, 1), Site(33, 2, 2) >>

\* a swarm: ten aftershocks on the coordinates of Edge, newest first, then Edge
Swarm == [ k \in 1..10 |-> Site(39 + k, 0, 0) ] \o <<Edge>>

\* the feature lists a successful response may carry
Payloads == { <<>>, <<Shallow, Deep>>, <<Deep, Shallow, Deep>> }

\* ------------------------------------------------------- EarthquakeFilters
\* handleDateRangeSelect: the [dateRange, timeWindow] it stores
handleDateRangeSelect(range, old) ==
    IF range.from # NoDate /\ range.to # NoDate
    THEN LET startDate == range.from
             endDate == range.to
             maxEndDate0 == setMonth(startDate, getMonth(startDate) + 5)
             maxEndDate == setDate(maxEndDate0, getDate(maxEndDate0) - 1)
         IN  [old EXCEPT
                !.dateRange = IF monthDiff(startDate, endDate) > 5
                              THEN <<startDate, maxEndDate>>
                              ELSE <<startDate, setHoursEndOfDay(endDate)>>,
                !.timeWindow = "custom"]
    ELSE IF range.from # NoDate
         THEN [old EXCEPT !.dateRange = <<range.from, NoDate>>]
         ELSE old

\* Select.onValueChange of the time window
onTimeWindowValueChange(value, old) ==
    IF value # "custom"
    THEN [old EXCEPT !.timeWindow = value, !.dateRange = <<NoDate, NoDate>>]
    ELSE [old EXCEPT !.timeWindow = value]

\* handleMagnitudeChange: the slider moves minMagnitude and drags magRange
handleMagnitudeChange(nextMin, old) ==
    IF old.magRange # NoRange
    THEN [old EXCEPT !.minMagnitude = nextMin,
                     !.magRange = <<nextMin, IF nextMin > old.magRange[2]
                                             THEN nextMin ELSE old.magRange[2]>>]
    ELSE [old EXCEPT !.minMagnitude = nextMin]

\* ------------------------------------------------------- fetchEarthquakes
IsCustomRange(p) == p.dateRange[1] # NoDate /\ p.dateRange[2] # NoDate

\* fault variant of lowerMag: without a range the slider is the lower bound
lowerMag_Slider(p) == IF p.magRange # NoRange THEN p.magRange[1] ELSE p.minMagnitude

lowerMag(p) == IF p.magRange # NoRange THEN p.magRange[1] ELSE 0
\* fault variant of upperMag: without a range the slider is no upper cap
upperMag_NoCap(p) == IF p.magRange # NoRange THEN p.magRange[2] ELSE 100

upperMag(p) == IF p.magRange # NoRange THEN p.magRange[2] ELSE p.minMagnitude

\* fault variant of chunkSizeOf: chunking starts one month too late
chunkSizeOf_LateThreshold(p) ==
    IF monthDiff(p.dateRange[1], p.dateRange[2]) > 2 THEN 1 ELSE 0

chunkSizeOf(p) ==
    IF monthDiff(p.dateRange[1], p.dateRange[2]) > 1 THEN 1 ELSE 0

\* fault variant of chunkEndOf: the chunk end is not clamped to the range end
chunkEndOf_Unclamped(currentStart, chunkSize, endDate) ==
    IF chunkSize > 0
    THEN setMonth(currentStart, getMonth(currentStart) + chunkSize)
    ELSE endDate

\* the chunkEnd computed at the top of the do..while body
chunkEndOf(currentStart, chunkSize, endDate) ==
    IF chunkSize > 0
    THEN LET chunkEnd == setMonth(currentStart, getMonth(currentStart) + chunkSize)
         IN  IF DateLess(endDate, chunkEnd) THEN endDate ELSE chunkEnd
    ELSE endDate

queryUrl(currentStart, chunkEnd, p) ==
    [url |-> "query",
     starttime |-> formatDate(currentStart),
     endtime |-> formatDate(chunkEnd),
     minmagnitude |-> lowerMag(p),
     maxmagnitude |-> upperMag(p),
     limit |-> 10000]

\* fault variant of feedUrl: every window other than 'day' reads the week feed
feedUrl_WeekByDefault(timeWindow) ==
    [url |-> IF timeWindow = "day" THEN "all_day.geojson" ELSE "all_week.geojson"]

feedUrl(timeWindow) ==
    [url |-> IF timeWindow = "week" THEN "all_week.geojson" ELSE "all_day.geojson"]

\* fault variant of nextStart: the cursor is put back a month
nextStart_Rewinds(chunkEnd) == setMonth(chunkEnd, getMonth(chunkEnd) - 1)

\* currentStart after a chunk: chunkEnd plus one day
nextStart(chunkEnd) == setDate(chunkEnd, getDate(chunkEnd) + 1)

\* fault variant of magnitudeFilter: only the upper bound is applied
magnitudeFilter_UpperOnly(all, p) ==
    LET Keep(e) == e.mag # NoMag /\ e.mag <= upperMag(p)
    IN  SelectSeq(all, Keep)

magnitudeFilter(all, p) ==
    LET Keep(e) == e.mag # NoMag /\ e.mag >= lowerMag(p) /\ e.mag <= upperMag(p)
    IN  SelectSeq(all, Keep)

\* fault variant of depthFilter: the upper depth bound is not tested
depthFilter_NoUpper(all, p) ==
    IF p.depthRange # NoRange
    THEN LET Keep(e) == e.depth >= p.depthRange[1]
         IN  SelectSeq(all, Keep)
    ELSE all

depthFilter(all, p) ==
    IF p.depthRange # NoRange
    THEN LET Keep(e) == e.depth >= p.depthRange[1] /\ e.depth <= p.depthRange[2]
         IN  SelectSeq(all, Keep)
    ELSE all

\* fault variant of countCap: the last maxCount events are kept
countCap_Suffix(all, p) ==
    IF p.maxCount # NoCount /\ p.maxCount > 0 /\ Len(all) > p.maxCount
    THEN SubSeq(all, Len(all) - p.maxCount + 1, Len(all))
    ELSE all

countCap(all, p) ==
    IF p.maxCount # NoCount /\ p.maxCount > 0 /\ Len(all) > p.maxCount
    THEN SubSeq(all, 1, p.maxCount)
    ELSE all

\* what the custom-range branch hands to setEarthquakes
customRangeResult(all, p) == countCap(depthFilter(all, p), p)

\* what the named-window branch hands to setEarthquakes
namedWindowResult(features, p) == countCap(depthFilter(magnitudeFilter(features, p), p), p)

HttpErrorMessage == "Failed to fetch earthquake data"
TransportErrorMessage == "transport error"
Failures == {HttpErrorMessage, TransportErrorMessage}

\* ------------------------------------------------------------ user inputs
\* Index.tsx initial state, and EarthquakeMap mounted without its optional props
IndexProps ==
    [minMagnitude |-> 20, timeWindow |-> "day", dateRange |-> <<NoDate, NoDate>>,
     magRange |-> <<0, 100>>, depthRange |-> <<0, 800>>, maxCount |-> 1000]

BareProps ==
    [minMagnitude |-> 20, timeWindow |-> "day", dateRange |-> <<NoDate, NoDate>>,
     magRange |-> NoRange, depthRange |-> NoRange, maxCount |-> NoCount]

InitialProps == {IndexProps, BareProps}

\* days the calendar hands to handleDateRangeSelect (local midnight)
Jan1 == MkDate(2024, 0, 1)
PickedRanges ==
    { [from |-> Jan1, to |-> NoDate],
      [from |-> Jan1, to |-> MkDate(2024, 0, 15)],
      [from |-> Jan1, to |-> MkDate(2024, 2, 2)] }

ChunkStarts == { Jan1, MkDate(2024, 0, 31), MkDate(2024, 10, 30) }
ChunkRanges ==
    { [from |-> f, to |-> [f EXCEPT !.day = f.day + n]] :
        f \in ChunkStarts, n \in 0..MaxSpanDays }

TimeWindows == {"day", "week", "custom"}
MagRanges == { <<20, 50>> }
DepthRanges == { <<0, 100>> }
MaxCounts == { 1 }
MinMagnitudes == { 30 }

\* ------------------------------------------------------------------ state
Init ==
    /\ props \in InitialProps
    /\ tz \in TzOffsets
    /\ orch = <<>>
    /\ net = {}
    /\ earthquakes = <<>>
    /\ loading = TRUE
    /\ error = Null
    /\ earthquakeCount = 0
    /\ newestResult = <<>>
    /\ rawInput = <<>>
    /\ replaced = <<>>
    /\ selectedEq = NoEvent
    /\ insightsOpen = FALSE
    /\ nearestFromApi = NoList
    /\ regional = <<>>
    /\ lastQuery = NoQuery
    /\ visualizeOpen = FALSE
    /\ data = <<>>
    /\ vizLoading = FALSE
    /\ vizNet = <<>>
    /\ showPlates = FALSE
    /\ plateData = Null
    /\ plateNet = <<>>
    /\ plateRequests = 0

\* fetchEarthquakes up to its first await: the invocation record and its request
startFetch(p) ==
    IF IsCustomRange(p)
    THEN LET chunkSize == chunkSizeOf(p)
             currentStart == p.dateRange[1]
             chunkEnd == chunkEndOf(currentStart, chunkSize, p.dateRange[2])
         IN  [p |-> p, pc |-> "awaiting", chunkSize |-> chunkSize,
              currentStart |-> currentStart, chunkEnd |-> chunkEnd,
              allEarthquakes |-> <<>>, fetched |-> <<>>,
              reqs |-> <<queryUrl(currentStart, chunkEnd, p)>>]
    ELSE [p |-> p, pc |-> "awaiting", chunkSize |-> 0,
          currentStart |-> NoDate, chunkEnd |-> NoDate,
          allEarthquakes |-> <<>>, fetched |-> <<>>,
          reqs |-> <<feedUrl(p.timeWindow)>>]

\* fetchData up to its await: the request of EarthquakeVisualize for props p
fetchData(p) ==
    LET start == p.dateRange[1]
        end == p.dateRange[2]
    IN  IF start # NoDate /\ end # NoDate
        THEN [url |-> "query",
              starttime |-> formatDate(start),
              endtime |-> formatDate(end),
              minmagnitude |-> IF p.magRange # NoRange THEN p.magRange[1] ELSE 0,
              maxmagnitude |-> IF p.magRange # NoRange THEN p.magRange[2] ELSE 100,
              limit |-> 20000]
        ELSE [url |-> IF p.timeWindow = "week" THEN "all_week.geojson" ELSE "all_day.geojson"]

\* the useEffect of EarthquakeVisualize when Index renders props p: it runs
\* while the dialog is open and dateRange (a new array on every selection),
\* timeWindow or the ends of magRange changed
visualizeEffect(p) ==
    IF /\ visualizeOpen
       /\ \/ <<p.dateRange, p.timeWindow, p.magRange>>
                # <<props.dateRange, props.timeWindow, props.magRange>>
          \/ p = props /\ orch # <<>>
    THEN /\ vizLoading' = TRUE
         /\ vizNet' = Append(vizNet, fetchData(p))
         /\ UNCHANGED <<visualizeOpen, data>>
    ELSE UNCHANGED visualize

\* fault variant of fetchEarthquakes: the first two chunk requests go out together
fetchEarthquakes_Parallel(p, limit) ==
    /\ Len(orch) < limit
    /\ props' = p
    /\ orch' = Append(orch, startFetch(p))
    /\ net' = net \cup { [orch |-> Len(orch) + 1, k |-> 1], [orch |-> Len(orch) + 1, k |-> 2] }
    /\ loading' = TRUE
    /\ error' = Null
    /\ newestResult' = <<>>
    /\ visualizeEffect(p)
    /\ UNCHANGED <<tz, earthquakes, earthquakeCount, rawInput, replaced, insights, plates>>

\* fault variant of fetchEarthquakes: the start of a fetch empties the working set
fetchEarthquakes_ClearsResults(p, limit) ==
    /\ Len(orch) < limit
    /\ props' = p
    /\ orch' = Append(orch, startFetch(p))
    /\ net' = net \cup { [orch |-> Len(orch) + 1, k |-> 1] }
    /\ loading' = TRUE
    /\ error' = Null
    /\ newestResult' = <<>>
    /\ earthquakes' = <<>>
    /\ earthquakeCount' = 0
    /\ visualizeEffect(p)
    /\ UNCHANGED <<tz, rawInput, replaced, insights, plates>>

\* the useEffect on the fetch parameters: a new render with props p starts a fetch
fetchEarthquakes(p, limit) ==
    /\ Len(orch) < limit
    /\ props' = p
    /\ orch' = Append(orch, startFetch(p))
    /\ net' = net \cup { [orch |-> Len(orch) + 1, k |-> 1] }
    /\ loading' = TRUE
    /\ error' = Null
    /\ newestResult' = <<>>
    /\ visualizeEffect(p)
    /\ UNCHANGED <<tz, earthquakes, earthquakeCount, rawInput, replaced, insights, plates>>

\* an invocation that has returned: its locals are gone
Finished(pc, o) == [pc |-> pc, sent |-> Len(o.reqs)]

\* setEarthquakes, onEarthquakeCountUpdate, and the finally block
\* fault variant of publish: the result is merged into the working set
publish_Merges(i, result) ==
    /\ earthquakes' = earthquakes \o result
    /\ earthquakeCount' = Len(earthquakes \o result)
    /\ replaced' = earthquakes
    /\ newestResult' = IF i = Len(orch) THEN result ELSE newestResult
    /\ loading' = FALSE
    /\ UNCHANGED <<props, tz, error, insights, visualize, plates>>

\* fault variant of publish: the count is not reported
publish_Unreported(i, result) ==
    /\ earthquakes' = result
    /\ earthquakeCount' = earthquakeCount
    /\ replaced' = earthquakes
    /\ newestResult' = IF i = Len(orch) THEN result ELSE newestResult
    /\ loading' = FALSE
    /\ UNCHANGED <<props, tz, error, insights, visualize, plates>>

publish(i, result) ==
    /\ earthquakes' = result
    /\ earthquakeCount' = Len(result)
    /\ replaced' = earthquakes
    /\ newestResult' = IF i = Len(orch) THEN result ELSE newestResult
    /\ loading' = FALSE
    /\ UNCHANGED <<props, tz, error, insights, visualize, plates>>

\* what EarthquakeMap renders: the spinner, the error card, or the map
exposed ==
    IF loading THEN "in progress"
    ELSE IF error # Null THEN "failed" ELSE "succeeded"

\* first render of EarthquakeMap
Mount(limit) ==
    /\ orch = <<>>
    /\ fetchEarthquakes(props, limit)

SelectDateRange(range, limit) ==
    /\ orch # <<>>
    /\ fetchEarthquakes(handleDateRangeSelect(range, props), limit)

ClearDateRange(limit) ==
    /\ orch # <<>>
    /\ props.dateRange[1] # NoDate \/ props.dateRange[2] # NoDate
    /\ fetchEarthquakes([props EXCEPT !.dateRange = <<NoDate, NoDate>>], limit)

SelectTimeWindow(value, limit) ==
    /\ orch # <<>>
    /\ value # "custom" \/ props.timeWindow # "custom"
    /\ fetchEarthquakes(onTimeWindowValueChange(value, props), limit)

ChangeMinMagnitude(v, limit) ==
    /\ orch # <<>>
    /\ handleMagnitudeChange(v, props) # props
    /\ fetchEarthquakes(handleMagnitudeChange(v, props), limit)

\* the magnitude range slider: stores the range and moves minMagnitude to its low end
onMagRangeValueChange(v, old) == [old EXCEPT !.magRange = v, !.minMagnitude = v[1]]

ChangeMagRange(r, limit) ==
    /\ orch # <<>>
    /\ onMagRangeValueChange(r, props) # props
    /\ fetchEarthquakes(onMagRangeValueChange(r, props), limit)

ChangeDepthRange(r, limit) ==
    /\ orch # <<>>
    /\ props.depthRange # r
    /\ fetchEarthquakes([props EXCEPT !.depthRange = r], limit)

ChangeMaxCount(n, limit) ==
    /\ orch # <<>>
    /\ props.maxCount # n
    /\ fetchEarthquakes([props EXCEPT !.maxCount = n], limit)

\* fault variant of accumulate: events an earlier chunk brought are skipped
accumulate_Dedup(allEarthquakes, features) ==
    LET New(e) == \A k \in 1..Len(allEarthquakes) : allEarthquakes[k] # e
    IN  allEarthquakes \o SelectSeq(features, New)

\* allEarthquakes after a chunk's features are appended
accumulate(allEarthquakes, features) == allEarthquakes \o features

\* a successful response to the outstanding request of invocation i; fetched is
\* history: the features of its responses so far, in the order they arrived
ResponseOk(i, features) ==
    /\ \E m \in net : m.orch = i
    /\ net' = { m \in net : m.orch # i }
    /\ LET o == orch[i]
           all == accumulate(o.allEarthquakes, features)
           fetched == o.fetched \o features
       IN  IF IsCustomRange(o.p)
           THEN IF o.chunkSize > 0
                THEN /\ orch' = [orch EXCEPT ![i].allEarthquakes = all,
                                             ![i].fetched = fetched,
                                             ![i].currentStart = nextStart(o.chunkEnd),
                                             ![i].pc = "pacing"]
                     /\ UNCHANGED <<props, tz, earthquakes, loading, error,
                                    earthquakeCount, newestResult, rawInput, replaced, insights, visualize, plates>>
                ELSE /\ orch' = [orch EXCEPT ![i] = Finished("done", o)]
                     /\ publish(i, customRangeResult(all, o.p))
                     /\ rawInput' = fetched
           ELSE /\ orch' = [orch EXCEPT ![i] = Finished("done", o)]
                /\ publish(i, namedWindowResult(features, o.p))
                /\ rawInput' = features

\* the 300 ms pacing timer of invocation i fires: loop test, next chunk or result
PacingElapsed(i) ==
    /\ orch[i].pc = "pacing"
    /\ LET o == orch[i]
           endDate == o.p.dateRange[2]
       IN  IF DateLess(o.currentStart, endDate)
           THEN LET chunkEnd == chunkEndOf(o.currentStart, o.chunkSize, endDate)
                IN  /\ orch' = [orch EXCEPT
                            ![i].chunkEnd = chunkEnd,
                            ![i].reqs = Append(o.reqs, queryUrl(o.currentStart, chunkEnd, o.p)),
                            ![i].pc = "awaiting"]
                    /\ net' = net \cup { [orch |-> i, k |-> Len(o.reqs) + 1] }
                    /\ UNCHANGED <<props, tz, earthquakes, loading, error,
                                   earthquakeCount, newestResult, rawInput, replaced, insights, visualize, plates>>
           ELSE /\ orch' = [orch EXCEPT ![i] = Finished("done", o)]
                /\ publish(i, customRangeResult(o.allEarthquakes, o.p))
                /\ rawInput' = o.fetched
                /\ UNCHANGED net

\* fault variant of ResponseFail: the events accumulated so far are published
ResponseFail_PublishesPartial(i, message) ==
    /\ \E m \in net : m.orch = i
    /\ net' = { m \in net : m.orch # i }
    /\ orch' = [orch EXCEPT ![i] = Finished("failed", orch[i])]
    /\ earthquakes' = orch[i].allEarthquakes
    /\ earthquakeCount' = Len(orch[i].allEarthquakes)
    /\ error' = message
    /\ loading' = FALSE
    /\ UNCHANGED <<props, tz, newestResult, rawInput, replaced, insights, visualize, plates>>

\* the outstanding request of invocation i fails: catch and finally
ResponseFail(i, message) ==
    /\ \E m \in net : m.orch = i
    /\ net' = { m \in net : m.orch # i }
    /\ orch' = [orch EXCEPT ![i] = Finished("failed", orch[i])]
    /\ error' = message
    /\ loading' = FALSE
    /\ UNCHANGED <<props, tz, earthquakes, earthquakeCount, newestResult, rawInput, replaced, insights, visualize, plates>>

\* ---------------------------------------------------------------- insights
\* haversineKm on the grid, in whole metres: R * c of the formula for latitudes
\* 0..2 and a longitude difference of 0..2 degrees (row lat1, column lat2)
HaversineTable ==
    << << <<0, 111195, 222390>>, <<111195, 157249, 248629>>, <<222390, 248629, 314475>> >>,
       << <<111195, 157249, 248629>>, <<0, 111178, 222356>>, <<111195, 157225, 248569>> >>,
       << <<222390, 248629, 314475>>, <<111195, 157225, 248569>>, <<0, 111127, 222254>> >> >>

haversineKm(lat1, lon1, lat2, lon2) ==
    LET dLon == IF lon2 >= lon1 THEN lon2 - lon1 ELSE lon1 - lon2
    IN HaversineTable[lat1 + 1][lat2 + 1][dLon + 1]

\* .map(e => ({ e, distKm: haversineKm(baseLat, baseLon, lat, lon) }))
byDistance(base, list) ==
    [ k \in 1..Len(list) |->
        [e |-> list[k], distKm |-> haversineKm(base.lat, base.lon, list[k].lat, list[k].lon)] ]

\* Array.prototype.sort with (a, b) => a.distKm - b.distKm: row j ends up ahead
\* of row k when it is strictly nearer, or as near and earlier in q (stable)
sortsAhead_LaterFirst(q, j, k) ==
    \/ q[j].distKm < q[k].distKm
    \/ q[j].distKm = q[k].distKm /\ j > k

sortsAhead(q, j, k) ==
    \/ q[j].distKm < q[k].distKm
    \/ q[j].distKm = q[k].distKm /\ j < k

sortByDistance(q) ==
    [ p \in 1..Len(q) |->
        q[CHOOSE k \in 1..Len(q) :
            Cardinality({ j \in 1..Len(q) : sortsAhead(q, j, k) }) = p - 1] ]

\* .slice(0, 10)
TopTen == 10

sliceTop_DropsNearest(q) == IF Len(q) <= TopTen THEN q ELSE SubSeq(q, Len(q) - TopTen + 1, Len(q))

sliceTop(q) == IF Len(q) <= TopTen THEN q ELSE SubSeq(q, 1, TopTen)

\* the rows InsightsTable renders for base over the list it is handed
InsightsTable(base, list) == sliceTop(sortByDistance(byDistance(base, list)))

\* the click handler's own ranking of a regional response: the same chain, then
\* .map(x => x.f)
regionalRanking(base, feats) ==
    LET ranked == sliceTop(sortByDistance(byDistance(base, feats)))
    IN [ k \in 1..Len(ranked) |-> ranked[k].e ]

\* earthquakes={nearestFromApi ?? earthquakes}
candidates == IF nearestFromApi = NoList THEN earthquakes ELSE nearestFromApi

\* {selectedEq && <InsightsTable base={selectedEq} ... />}
rows == IF selectedEq = NoEvent THEN <<>> ELSE InsightsTable(selectedEq, candidates)

dropAt(q, k) == SubSeq(q, 1, k - 1) \o SubSeq(q, k + 1, Len(q))

\* marker click up to its await: the markers exist only once the map is rendered
MarkerClick(e, limit) ==
    /\ exposed = "succeeded"
    /\ \E k \in 1..Len(earthquakes) : earthquakes[k] = e
    /\ Len(regional) < limit
    /\ selectedEq' = e
    /\ insightsOpen' = TRUE
    /\ regional' = Append(regional, e)
    /\ UNCHANGED <<props, tz, orch, net, earthquakes, loading, error, earthquakeCount,
                   newestResult, rawInput, replaced, nearestFromApi, lastQuery,
                   visualize, plates>>

\* the regional response of click k is ok: ranked against the event of that click
RegionalOk(k, feats) ==
    /\ k \in 1..Len(regional)
    /\ nearestFromApi' = regionalRanking(regional[k], feats)
    /\ lastQuery' = [base |-> regional[k], feats |-> feats]
    /\ regional' = dropAt(regional, k)
    /\ UNCHANGED <<props, tz, orch, net, earthquakes, loading, error, earthquakeCount,
                   newestResult, rawInput, replaced, selectedEq, insightsOpen,
                   visualize, plates>>

RegionalFail_KeepsRanking(k) ==
    /\ k \in 1..Len(regional)
    /\ lastQuery' = NoQuery
    /\ regional' = dropAt(regional, k)
    /\ UNCHANGED <<props, tz, orch, net, earthquakes, loading, error, earthquakeCount,
                   newestResult, rawInput, replaced, selectedEq, insightsOpen, nearestFromApi,
                   visualize, plates>>

\* a non-ok status, or fetch or res.json() rejecting
RegionalFail(k) ==
    /\ k \in 1..Len(regional)
    /\ nearestFromApi' = NoList
    /\ lastQuery' = NoQuery
    /\ regional' = dropAt(regional, k)
    /\ UNCHANGED <<props, tz, orch, net, earthquakes, loading, error, earthquakeCount,
                   newestResult, rawInput, replaced, selectedEq, insightsOpen,
                   visualize, plates>>

\* <Dialog onOpenChange={setInsightsOpen}>: the user closes the dialog
CloseInsights ==
    /\ insightsOpen
    /\ insightsOpen' = FALSE
    /\ UNCHANGED <<props, tz, orch, net, earthquakes, loading, error, earthquakeCount,
                   newestResult, rawInput, replaced, selectedEq, nearestFromApi, regional,
                   lastQuery, visualize, plates>>

\* --------------------------------------------------------------- visualize
\* a feature as EarthquakeVisualize reads it: properties.mag in tenths (NoMag
\* for null) and properties.time in ms since the first day of the calendar
Quake(id, mag, time) == [id |-> id, mag |-> mag, time |-> time]

\* new Date(f.properties.time).toISOString().slice(0, 10)
dayLabel(f) == Ymd(f.time \div MsPerDay)

\* the order of two "YYYY-MM-DD" labels as strings
labelLess(a, b) ==
    \/ a[1] < b[1]
    \/ a[1] = b[1] /\ a[2] < b[2]
    \/ a[1] = b[1] /\ a[2] = b[2] /\ a[3] < b[3]

\* .sort((a, b) => (a[0] < b[0] ? -1 : 1)) over the entries of the map
entryBefore_Descending(a, b) == labelLess(b, a)

entryBefore(a, b) == labelLess(a, b)

\* byDay: one entry per label met in d with its number of events, sorted
byDay(d) ==
    LET labels == { dayLabel(d[k]) : k \in 1..Len(d) }
        count(l) == Cardinality({ k \in 1..Len(d) : dayLabel(d[k]) = l })
    IN  [ n \in 1..Cardinality(labels) |->
            LET l == CHOOSE x \in labels :
                        Cardinality({ y \in labels : entryBefore(y, x) }) = n - 1
            IN  [day |-> l, count |-> count(l)] ]

\* the four magnitude bands: label, min and max in tenths
Infinity == 1000000
buckets ==
    << [label |-> "<2.0", min |-> 0 - Infinity, max |-> 20],
       [label |-> "2.0-3.9", min |-> 20, max |-> 40],
       [label |-> "4.0-5.9", min |-> 40, max |-> 60],
       [label |-> "6.0+", min |-> 60, max |-> Infinity] >>

\* the number a comparison makes of properties.mag: null compares as 0
magNumber(f) == IF f.mag = NoMag THEN 0 ELSE f.mag

inBucket_UpperInclusive(m, b) == m > b.min /\ m <= b.max

\* if (m >= b.min && m < b.max)
inBucket(m, b) == m >= b.min /\ m < b.max

\* byMagnitudeBucket: every event counts in the first bucket it is in
byMagnitudeBucket(d) ==
    LET first(f) == { n \in 1..Len(buckets) :
                        /\ inBucket(magNumber(f), buckets[n])
                        /\ \A j \in 1..(n - 1) : ~inBucket(magNumber(f), buckets[j]) }
    IN  [ n \in 1..Len(buckets) |->
            [bucket |-> buckets[n].label,
             count |-> Cardinality({ k \in 1..Len(d) : n \in first(d[k]) })] ]

\* onVisualize: the dialog opens and its effect starts fetchData
OpenVisualize(limit) ==
    /\ ~visualizeOpen
    /\ Len(vizNet) < limit
    /\ visualizeOpen' = TRUE
    /\ vizLoading' = TRUE
    /\ vizNet' = Append(vizNet, fetchData(props))
    /\ UNCHANGED <<props, tz, orch, net, earthquakes, loading, error, earthquakeCount,
                   newestResult, rawInput, replaced, data, insights, plates>>

\* onOpenChange(false): the effect runs and returns at once
CloseVisualize ==
    /\ visualizeOpen
    /\ visualizeOpen' = FALSE
    /\ UNCHANGED <<props, tz, orch, net, earthquakes, loading, error, earthquakeCount,
                   newestResult, rawInput, replaced, data, vizLoading, vizNet, insights,
                   plates>>

\* request k of fetchData is answered with a body that parses: setData, finally
VisualizeOk(k, features) ==
    /\ k \in 1..Len(vizNet)
    /\ data' = features
    /\ vizLoading' = FALSE
    /\ vizNet' = dropAt(vizNet, k)
    /\ UNCHANGED <<props, tz, orch, net, earthquakes, loading, error, earthquakeCount,
                   newestResult, rawInput, replaced, visualizeOpen, insights, plates>>

\* fetch or res.json() rejects: catch sets the data to [], finally
VisualizeFail(k) ==
    /\ k \in 1..Len(vizNet)
    /\ data' = <<>>
    /\ vizLoading' = FALSE
    /\ vizNet' = dropAt(vizNet, k)
    /\ UNCHANGED <<props, tz, orch, net, earthquakes, loading, error, earthquakeCount,
                   newestResult, rawInput, replaced, visualizeOpen, insights, plates>>

\* ------------------------------------------------------------ plate overlay
\* the cleanup of the fetchPlates effect: the closure of the run before is cancelled
cleanup(closures) == [ k \in 1..Len(closures) |-> [cancelled |-> TRUE] ]

\* onShowPlatesChange: cleanup, then the effect runs with the new showPlates and
\* sends a request unless the overlay is off or the data is there
TogglePlates(limit) ==
    /\ showPlates' = ~showPlates
    /\ IF ~showPlates /\ plateData = Null
       THEN /\ plateRequests < limit
            /\ plateNet' = Append(cleanup(plateNet), [cancelled |-> FALSE])
            /\ plateRequests' = plateRequests + 1
       ELSE /\ plateNet' = cleanup(plateNet)
            /\ plateRequests' = plateRequests
    /\ UNCHANGED <<props, tz, orch, net, earthquakes, loading, error, earthquakeCount,
                   newestResult, rawInput, replaced, plateData, insights, visualize>>

PlatesOk_IgnoresCancelled(k, gj) ==
    /\ k \in 1..Len(plateNet)
    /\ plateData' = gj
    /\ plateNet' = cleanup(dropAt(plateNet, k))
    /\ UNCHANGED <<props, tz, orch, net, earthquakes, loading, error, earthquakeCount,
                   newestResult, rawInput, replaced, showPlates, plateRequests, insights,
                   visualize>>

\* request k is answered ok with body gj: if (!cancelled) setPlateData(gj), and
\* the effect runs again on the new plateData (cleanup, then it returns)
PlatesOk(k, gj) ==
    /\ k \in 1..Len(plateNet)
    /\ IF plateNet[k].cancelled
       THEN /\ plateData' = plateData
            /\ plateNet' = dropAt(plateNet, k)
       ELSE /\ plateData' = gj
            /\ plateNet' = cleanup(dropAt(plateNet, k))
    /\ UNCHANGED <<props, tz, orch, net, earthquakes, loading, error, earthquakeCount,
                   newestResult, rawInput, replaced, showPlates, plateRequests, insights,
                   visualize>>

\* !res.ok, or fetch or res.json() rejecting: nothing is stored
PlatesFail(k) ==
    /\ k \in 1..Len(plateNet)
    /\ plateNet' = dropAt(plateNet, k)
    /\ UNCHANGED <<props, tz, orch, net, earthquakes, loading, error, earthquakeCount,
                   newestResult, rawInput, replaced, showPlates, plateData, plateRequests,
                   insights, visualize>>

Invocations == 1..Len(orch)

Next ==
    \/ Mount(MaxFetch)
    \/ \E r \in PickedRanges : SelectDateRange(r, MaxFetch)
    \/ ClearDateRange(MaxFetch + 1)   \* follows a selection: one fetch further
    \/ \E w \in TimeWindows : SelectTimeWindow(w, MaxFetch)
    \/ \E v \in MinMagnitudes : ChangeMinMagnitude(v, MaxFetch)
    \/ \E r \in MagRanges : ChangeMagRange(r, MaxFetch)
    \/ \E r \in DepthRanges : ChangeDepthRange(r, MaxFetch)
    \/ \E n \in MaxCounts : ChangeMaxCount(n, MaxFetch)
    \/ \E i \in Invocations, f \in Payloads : ResponseOk(i, f)
    \/ \E i \in Invocations, msg \in Failures : ResponseFail(i, msg)
    \/ \E i \in Invocations : PacingElapsed(i)

Spec == Init /\ [][Next]_vars

\* the fetch lifecycle in one zone: the zone only shifts the dates a request
\* renders, which no step of the lifecycle reads
InitUtc == Init /\ tz = 0

SpecUtc == InitUtc /\ [][Next]_vars

\* one custom-range orchestration over the calendar, after the mount fetch
NextChunk ==
    \/ Mount(2)
    \/ \E r \in ChunkRanges : SelectDateRange(r, 2)
    \/ \E i \in Invocations : ResponseOk(i, <<>>)
    \/ \E i \in Invocations, msg \in Failures : ResponseFail(i, msg)
    \/ \E i \in Invocations : PacingElapsed(i)

InitChunk == Init /\ props = IndexProps

SpecChunk == InitChunk /\ [][NextChunk]_vars

\* the same orchestration under fair scheduling: every request is answered and
\* every pacing timer fires
FairRanges ==
    { [from |-> f, to |-> [f EXCEPT !.day = f.day + n]] :
        f \in ChunkStarts, n \in {0, 14, 31, 70, 100} }

NextFair ==
    \/ Mount(2)
    \/ \E r \in FairRanges : SelectDateRange(r, 2)
    \/ \E i \in Invocations : ResponseOk(i, <<>>)
    \/ \E i \in Invocations, msg \in Failures : ResponseFail(i, msg)
    \/ \E i \in Invocations : PacingElapsed(i)

Progress == \E i \in Invocations : ResponseOk(i, <<>>) \/ PacingElapsed(i)

FairSpecChunk == InitChunk /\ [][NextFair]_vars /\ WF_vars(Progress)

\* the filtering pipeline on its own: one fetch, mounted with any FilterConfig,
\* answered with any feature list of at most MaxLen events
RECURSIVE SeqsUpTo(_, _)
SeqsUpTo(S, n) ==
    IF n = 0 THEN { <<>> }
    ELSE LET shorter == SeqsUpTo(S, n - 1)
         IN  shorter \cup { Append(q, e) : q \in shorter, e \in S }

RawInputs == SeqsUpTo(FilterEvents, MaxLen)

FilterRanges ==
    { <<NoDate, NoDate>>,
      <<Jan1, setHoursEndOfDay(MkDate(2024, 0, 15))>>,
      <<Jan1, setHoursEndOfDay(MkDate(2024, 2, 2))>> }

FilterConfigs ==
    { [minMagnitude |-> 20, timeWindow |-> IF r[1] = NoDate THEN "day" ELSE "custom",
       dateRange |-> r, magRange |-> m, depthRange |-> d, maxCount |-> n] :
        r \in FilterRanges, m \in {NoRange} \cup MagRanges,
        d \in {NoRange} \cup DepthRanges, n \in {NoCount, 0, 1, 2} }

InitFilter ==
    /\ props \in FilterConfigs
    /\ tz = 0
    /\ orch = <<>>
    /\ net = {}
    /\ earthquakes = <<>>
    /\ loading = TRUE
    /\ error = Null
    /\ earthquakeCount = 0
    /\ newestResult = <<>>
    /\ rawInput = <<>>
    /\ replaced = <<>>
    /\ selectedEq = NoEvent
    /\ insightsOpen = FALSE
    /\ nearestFromApi = NoList
    /\ regional = <<>>
    /\ lastQuery = NoQuery
    /\ visualizeOpen = FALSE
    /\ data = <<>>
    /\ vizLoading = FALSE
    /\ vizNet = <<>>
    /\ showPlates = FALSE
    /\ plateData = Null
    /\ plateNet = <<>>
    /\ plateRequests = 0

NextFilter ==
    \/ Mount(1)
    \/ \E i \in Invocations, f \in RawInputs : ResponseOk(i, f)
    \/ \E i \in Invocations, msg \in Failures : ResponseFail(i, msg)
    \/ \E i \in Invocations : PacingElapsed(i)

SpecFilter == InitFilter /\ [][NextFilter]_vars

\* the insights dialog over one mounted map: clicks on its markers and the
\* regional responses, in any order
MaxPending == 2
MapPayloads == { <<>>, <<Shallow, Deep, Edge>>, Cluster, Swarm }
RegionalPayloads == { <<>>, <<Shallow, Deep>>, <<Deep, Shallow>>, Cluster }

\* the markers the user clicks: a corner, an edge and the middle of the grid
ClickedMarkers == { Edge, Shallow, Site(11, 1, 1), Site(22, 2, 2) }

InitInsights == InitUtc /\ props = IndexProps

NextInsights ==
    \/ Mount(1)
    \/ \E i \in Invocations, f \in MapPayloads : ResponseOk(i, f)
    \/ \E e \in ClickedMarkers : MarkerClick(e, MaxPending)
    \/ \E k \in 1..MaxPending, f \in RegionalPayloads : RegionalOk(k, f)
    \/ \E k \in 1..MaxPending : RegionalFail(k)
    \/ CloseInsights

SpecInsights == InitInsights /\ [][NextInsights]_vars

\* the charts dialog: events on both sides of every band bound, with a null
\* magnitude, on three UTC days that are not all adjacent
VizEvents ==
    { Quake(1, 15, 9 * MsPerDay + EndOfDayMs), Quake(2, 20, 10 * MsPerDay),
      Quake(3, 30, 10 * MsPerDay + 1), Quake(4, 40, 12 * MsPerDay),
      Quake(5, 55, 12 * MsPerDay + 1000), Quake(6, 60, 9 * MsPerDay),
      Quake(7, 62, 10 * MsPerDay + EndOfDayMs), Quake(8, NoMag, 12 * MsPerDay + 5) }
OnePerBand ==
    << Quake(1, 15, 12 * MsPerDay), Quake(3, 30, 10 * MsPerDay + 1),
       Quake(5, 55, 12 * MsPerDay + 1000), Quake(7, 62, 9 * MsPerDay) >>
VizPayloads == SeqsUpTo(VizEvents, MaxLen) \cup {OnePerBand}

InitVisualize == InitUtc /\ props = IndexProps

NextVisualize ==
    \/ OpenVisualize(MaxPending)
    \/ CloseVisualize
    \/ \E k \in 1..MaxPending, f \in VizPayloads : VisualizeOk(k, f)
    \/ \E k \in 1..MaxPending : VisualizeFail(k)

SpecVisualize == InitVisualize /\ [][NextVisualize]_vars

\* the range picker: selections of up to MaxSpanDays days from month ends and
\* from the first of a month, before leap and common Februaries
PickerStarts ==
    { Jan1, MkDate(2023, 8, 30), MkDate(2024, 7, 31), MkDate(2024, 8, 30) }
PickerRanges ==
    { [from |-> f, to |-> [f EXCEPT !.day = f.day + n]] :
        f \in PickerStarts, n \in 0..MaxSpanDays }

NextPicker ==
    \/ Mount(1)
    \/ \E r \in PickerRanges : SelectDateRange(r, 2)
    \/ ClearDateRange(3)

InitPicker == InitChunk /\ tz = 0

SpecPicker == InitPicker /\ [][NextPicker]_vars

\* the plate overlay switch over one mounted map; the bodies the overlay
\* request may be answered with
MaxPlateFetch == 3
PlateBodies == {"PB2002_boundaries", "PB2002_boundaries (later revision)"}

InitPlates == InitUtc /\ props = IndexProps

NextPlates ==
    \/ Mount(1)
    \/ \E i \in Invocations, f \in Payloads : ResponseOk(i, f)
    \/ \E i \in Invocations, msg \in Failures : ResponseFail(i, msg)
    \/ TogglePlates(MaxPlateFetch)
    \/ \E k \in 1..MaxPlateFetch, gj \in PlateBodies : PlatesOk(k, gj)
    \/ \E k \in 1..MaxPlateFetch : PlatesFail(k)

SpecPlates == InitPlates /\ [][NextPlates]_vars

\* the map and the charts dialog side by side over one remote service that
\* answers equal feed requests with equal bodies
Feature(id, mag, depth, time) ==
    [id |-> id, mag |-> mag, depth |-> depth, lat |-> 0, lon |-> 0, time |-> time]
DayFeed ==
    << Feature(1, 45, 300, 12 * MsPerDay + 3), Feature(2, 15, 10, 12 * MsPerDay + 2),
       Feature(3, 30, 50, 12 * MsPerDay + 1) >>
WeekFeed == DayFeed \o << Feature(4, 62, 20, 9 * MsPerDay) >>
Serve(req) == IF req.url = "all_week.geojson" THEN WeekFeed ELSE DayFeed

AggregateConfigs ==
    { IndexProps, BareProps,
      [IndexProps EXCEPT !.timeWindow = "week"],
      [IndexProps EXCEPT !.timeWindow = "month"],
      [IndexProps EXCEPT !.depthRange = <<0, 100>>],
      [IndexProps EXCEPT !.magRange = <<20, 50>>],
      [IndexProps EXCEPT !.maxCount = 1] }

InitAggregate ==
    /\ props \in AggregateConfigs
    /\ tz = 0
    /\ orch = <<>>
    /\ net = {}
    /\ earthquakes = <<>>
    /\ loading = TRUE
    /\ error = Null
    /\ earthquakeCount = 0
    /\ newestResult = <<>>
    /\ rawInput = <<>>
    /\ replaced = <<>>
    /\ selectedEq = NoEvent
    /\ insightsOpen = FALSE
    /\ nearestFromApi = NoList
    /\ regional = <<>>
    /\ lastQuery = NoQuery
    /\ visualizeOpen = FALSE
    /\ data = <<>>
    /\ vizLoading = FALSE
    /\ vizNet = <<>>
    /\ showPlates = FALSE
    /\ plateData = Null
    /\ plateNet = <<>>
    /\ plateRequests = 0

NextAggregate ==
    \/ Mount(1)
    \/ \E i \in Invocations : ResponseOk(i, Serve(orch[i].reqs[Len(orch[i].reqs)]))
    \/ \E i \in Invocations, msg \in Failures : ResponseFail(i, msg)
    \/ OpenVisualize(MaxPending)
    \/ CloseVisualize
    \/ \E k \in 1..Len(vizNet) : VisualizeOk(k, Serve(vizNet[k]))
    \/ \E k \in 1..MaxPending : VisualizeFail(k)

SpecAggregate == InitAggregate /\ [][NextAggregate]_vars

\* ------------------------------------------------------------ vocabulary
Live(o) == o.pc \in {"awaiting", "pacing"}
Settled == \A i \in Invocations : ~Live(orch[i])
Outstanding(n, i) == { m \in n : m.orch = i }
\* invocation i returns in this step
Returns(i, pc) == Live(orch[i]) /\ orch'[i].pc = pc
InBounds(e, p) == e.mag # NoMag /\ lowerMag(p) <= e.mag /\ e.mag <= upperMag(p)
Range(s) == { s[k] : k \in 1..Len(s) }

\* ---------------------------------------------------------------- claims
\* C1: when every fetch has returned and the newest one succeeded, the working
\* set and the reported count are the newest fetch's, whatever the order in
\* which an older fetch and the newest one completed.
C1_NewestFetchWins ==
    (orch # <<>> /\ Settled /\ orch[Len(orch)].pc = "done")
        => (earthquakes = newestResult /\ earthquakeCount = Len(newestResult))

\* C2: a failing request ends its orchestration: the step stores the failure
\* message and clears loading, publishes nothing (working set and count are
\* untouched), leaves no request of that orchestration in flight, and a
\* failed orchestration never changes or sends again.
C2_FailureAborts ==
    [][\A i \in Invocations :
        /\ Returns(i, "failed") =>
              /\ error' \in Failures
              /\ loading' = FALSE
              /\ earthquakes' = earthquakes
              /\ earthquakeCount' = earthquakeCount
              /\ Outstanding(net', i) = {}
        /\ orch[i].pc = "failed" =>
              /\ orch'[i] = orch[i]
              /\ Outstanding(net', i) = {}]_vars

C2_Witness ==
    \E i \in Invocations :
        /\ orch[i].pc = "failed"
        /\ orch[i].sent = 2
        /\ error = HttpErrorMessage
        /\ loading = FALSE
        /\ earthquakes = <<>>

\* C7: an orchestration never has two requests outstanding, a request in
\* flight is the last one its orchestration sent, and a further request is
\* sent only from the pacing state, which is entered on the previous response.
C7_Sequential ==
    [][\A i \in 1..Len(orch') :
        /\ Cardinality(Outstanding(net', i)) <= 1
        /\ \A m \in Outstanding(net', i) :
              orch'[i].pc = "awaiting" /\ m.k = Len(orch'[i].reqs)
        /\ (i \in Invocations /\ Live(orch[i]) /\ Live(orch'[i])
                /\ orch'[i].reqs # orch[i].reqs) =>
              /\ orch[i].pc = "pacing"
              /\ Outstanding(net, i) = {}
              /\ Len(orch'[i].reqs) = Len(orch[i].reqs) + 1]_vars

C7_Witness ==
    \E i \in Invocations :
        orch[i].pc = "awaiting" /\ Len(orch[i].reqs) = 2 /\ Outstanding(net, i) # {}

\* C9: an orchestration whose date range is not fully set sends exactly one
\* request, to all_week.geojson when the window is 'week' and to
\* all_day.geojson otherwise, with no date or magnitude parameter.
C9_NamedWindowRequest ==
    [][\A i \in 1..Len(orch') :
        ~Live(orch'[i])
        \/ IsCustomRange(orch'[i].p)
        \/ /\ orch'[i].reqs =
                <<[url |-> IF orch'[i].p.timeWindow = "week"
                           THEN "all_week.geojson" ELSE "all_day.geojson"]>>
           /\ orch'[i].pc = "awaiting"]_vars
      /\ [][\A i \in Invocations :
            (Live(orch[i]) /\ ~IsCustomRange(orch[i].p) /\ orch'[i] # orch[i])
                => orch'[i].sent = 1]_vars

C9_Witness ==
    \E i \in Invocations :
        /\ Live(orch[i])
        /\ orch[i].p.timeWindow = "custom"
        /\ ~IsCustomRange(orch[i].p)
        /\ orch[i].reqs = <<[url |-> "all_day.geojson"]>>

\* C10 as stated: in both query modes every event of a published working set
\* lies within the magnitude bounds of the fetch that published it.
C10_PublishedWithinMagnitude ==
    [][\A i \in Invocations :
        Returns(i, "done") =>
            \A e \in Range(earthquakes') : InBounds(e, orch[i].p)]_vars

\* C10 amended: a named-window fetch publishes only events within its
\* magnitude bounds, whatever the feed returned; a custom-range fetch only
\* sends the bounds to the server and applies no magnitude filter of its own.
C10_NamedWindowWithinMagnitude ==
    [][\A i \in Invocations :
        (Returns(i, "done") /\ ~IsCustomRange(orch[i].p)) =>
            \A e \in Range(earthquakes') : InBounds(e, orch[i].p)]_vars

C10_Witness ==
    /\ loading = FALSE
    /\ props.magRange = <<20, 50>>
    /\ ~IsCustomRange(props)
    /\ earthquakes = <<Deep, Deep>>

\* ------------------------------------------------- claims on the chunk loop
\* the day number a request date "YYYY-MM-DD" denotes
ParseYmd(s) == DayNumber(s[1], s[2] - 1, s[3])
\* the calendar date the user picked (local), as "YYYY-MM-DD"
PickedYmd(D) == Ymd(D.day)
Chunked(p) == IsCustomRange(p) /\ monthDiff(p.dateRange[1], p.dateRange[2]) > 1
Single(p) == IsCustomRange(p) /\ monthDiff(p.dateRange[1], p.dateRange[2]) <= 1
\* ceil of the span in months: whole months, plus one when days are left over
CeilSpanMonths(p) ==
    monthDiff(p.dateRange[1], p.dateRange[2])
        + (IF getDate(p.dateRange[2]) > getDate(p.dateRange[1]) THEN 1 ELSE 0)

\* C3: a custom range spanning at most one month is fetched with exactly one
\* request whose starttime is the picked start date and whose endtime is the
\* picked end date.
C3_SingleRequestCarriesRange ==
    \A i \in Invocations :
        (Live(orch[i]) /\ Single(orch[i].p)) =>
            /\ Len(orch[i].reqs) = 1
            /\ orch[i].reqs[1].starttime = PickedYmd(orch[i].p.dateRange[1])
            /\ orch[i].reqs[1].endtime = PickedYmd(orch[i].p.dateRange[2])

\* C4 as stated: a custom range spanning more than one month is fetched with
\* exactly ceil(spanMonths) requests.
C4_RequestCountIsCeil ==
    [][\A i \in Invocations :
        (Returns(i, "done") /\ Chunked(orch[i].p)) =>
            Len(orch[i].reqs) = CeilSpanMonths(orch[i].p)]_vars

\* C4 amended: a custom range spanning more than one month is fetched with
\* ceil(spanMonths) requests or one fewer (each chunk starts a day after the
\* previous one ended, so the leftover days can fall into the last full chunk).
C4_RequestCountNearCeil ==
    [][\A i \in Invocations :
        (Returns(i, "done") /\ Chunked(orch[i].p)) =>
            /\ Len(orch[i].reqs) <= CeilSpanMonths(orch[i].p)
            /\ Len(orch[i].reqs) >= CeilSpanMonths(orch[i].p) - 1]_vars

C4_Witness ==
    /\ Len(orch) = 2
    /\ orch[2].pc = "done"
    /\ orch[2].sent = 4
    /\ props.dateRange = <<Jan1, setHoursEndOfDay(MkDate(2024, 3, 10))>>

\* C5: when a chunked orchestration has finished, every calendar day from the
\* start to the end of the range (as the requests render them) lies within
\* the [starttime, endtime] of one of its requests.
C5_ChunksCoverRange ==
    [][\A i \in Invocations :
        (Returns(i, "done") /\ Chunked(orch[i].p)) =>
            \A d \in UtcDay(orch[i].p.dateRange[1])..UtcDay(orch[i].p.dateRange[2]) :
                \E k \in 1..Len(orch[i].reqs) :
                    /\ ParseYmd(orch[i].reqs[k].starttime) <= d
                    /\ d <= ParseYmd(orch[i].reqs[k].endtime)]_vars

C5_Witness ==
    /\ Len(orch) = 2
    /\ orch[2].pc = "done"
    /\ orch[2].sent = 3
    /\ props.dateRange = <<MkDate(2024, 0, 31), setHoursEndOfDay(MkDate(2024, 3, 5))>>

C8_LoopTerminates ==
    /\ (~Settled) ~> (Settled /\ loading = FALSE)
    /\ [][\A i \in Invocations :
            /\ (orch[i].pc = "awaiting" /\ orch'[i].pc = "pacing")
                  => DateLess(orch[i].currentStart, orch'[i].currentStart)
            /\ (orch[i].pc = "pacing" /\ orch'[i] # orch[i]
                    /\ ~DateLess(orch[i].currentStart, orch[i].p.dateRange[2]))
                  => orch'[i].pc = "done"]_vars

C8_Witness ==
    /\ Len(orch) = 2
    /\ orch[2].pc = "done"
    /\ orch[2].sent = 3
    /\ loading = FALSE

\* --------------------------------------------- claims on the filter pipeline
\* the magnitude bounds as the specification words them
ClaimedMagBounds(p) == IF p.magRange # NoRange THEN p.magRange ELSE <<0, p.minMagnitude>>
WithinMag(e, p) == ClaimedMagBounds(p)[1] <= e.mag /\ e.mag <= ClaimedMagBounds(p)[2]
WithinDepth(e, p) ==
    p.depthRange = NoRange \/ (p.depthRange[1] <= e.depth /\ e.depth <= p.depthRange[2])

\* C11: a named-window fetch publishes only events whose magnitude lies in the
\* explicit range, or in [0, minMagnitude] when no range is configured; with no
\* depth bounds and no cap in the way, it publishes exactly the fetched events
\* that do.
C11_MagnitudeStage ==
    [][\A i \in Invocations :
        (Returns(i, "done") /\ ~IsCustomRange(orch[i].p)) =>
            /\ \A e \in Range(earthquakes') : WithinMag(e, orch[i].p)
            /\ (orch[i].p.depthRange = NoRange /\ orch[i].p.maxCount = NoCount) =>
                  \A e \in Range(rawInput') :
                      (e \in Range(earthquakes')) <=> WithinMag(e, orch[i].p)]_vars

C11_Witness ==
    /\ loading = FALSE
    /\ ~IsCustomRange(props)
    /\ props.magRange = NoRange /\ props.depthRange = NoRange /\ props.maxCount = NoCount
    /\ rawInput = <<Deep, Edge>>
    /\ earthquakes = <<Edge>>

\* C12: every request of a custom-range orchestration is a query carrying
\* starttime, endtime, minmagnitude and maxmagnitude, and in every chunk the
\* magnitude parameters are the explicit range, or 0 and minMagnitude when no
\* range is configured.
C12_QueryParameters ==
    \A i \in Invocations :
        (Live(orch[i]) /\ IsCustomRange(orch[i].p)) =>
            \A k \in 1..Len(orch[i].reqs) :
                LET r == orch[i].reqs[k]
                IN  /\ r.url = "query"
                    /\ {"starttime", "endtime", "minmagnitude", "maxmagnitude"}
                            \subseteq DOMAIN r
                    /\ r.minmagnitude = ClaimedMagBounds(orch[i].p)[1]
                    /\ r.maxmagnitude = ClaimedMagBounds(orch[i].p)[2]

C12_Witness ==
    \E i \in Invocations :
        /\ Live(orch[i])
        /\ orch[i].p.magRange = NoRange
        /\ Len(orch[i].reqs) = 2
        /\ orch[i].reqs[2].minmagnitude = 0
        /\ orch[i].reqs[2].maxmagnitude = 20

\* what the stages before the cap keep of a raw input, as the specification
\* words it: the depth bounds in both modes, the magnitude bounds client-side
\* under a named window
Kept(e, p) == WithinDepth(e, p) /\ (IsCustomRange(p) \/ WithinMag(e, p))
Filtered(raw, p) ==
    LET Keep(e) == Kept(e, p)
    IN  SelectSeq(raw, Keep)
CapActive(p) == p.maxCount # NoCount /\ p.maxCount >= 1
Min(a, b) == IF a <= b THEN a ELSE b

\* C13: in both modes a fetch publishes only events within the configured depth
\* bounds, and the depth filter runs before the cap: the cap counts events that
\* passed it, so the working set has min(N, number of passing events) events.
C13_DepthStage ==
    [][\A i \in Invocations :
        Returns(i, "done") =>
            /\ \A e \in Range(earthquakes') : WithinDepth(e, orch[i].p)
            /\ Len(earthquakes') =
                  IF CapActive(orch[i].p)
                  THEN Min(orch[i].p.maxCount, Len(Filtered(rawInput', orch[i].p)))
                  ELSE Len(Filtered(rawInput', orch[i].p))]_vars

C13_Witness ==
    /\ loading = FALSE
    /\ IsCustomRange(props)
    /\ props.depthRange = <<0, 100>>
    /\ props.maxCount = 1
    /\ rawInput = <<Deep, Edge>>
    /\ earthquakes = <<Edge>>

\* C14: the cap is the last stage and a prefix truncation: with a cap N >= 1
\* the working set is the first min(N, length) events of the filtered sequence,
\* in arrival order; with the cap absent or <= 0 it is the whole filtered
\* sequence.
C14_CountCap ==
    [][\A i \in Invocations :
        Returns(i, "done") =>
            LET filtered == Filtered(rawInput', orch[i].p)
                N == orch[i].p.maxCount
            IN  IF CapActive(orch[i].p)
                THEN /\ Len(earthquakes') <= N
                     /\ earthquakes' = SubSeq(filtered, 1, Min(N, Len(filtered)))
                ELSE earthquakes' = filtered]_vars

C14_Witness ==
    /\ loading = FALSE
    /\ ~IsCustomRange(props)
    /\ props.magRange = NoRange
    /\ props.maxCount = 1
    /\ rawInput = <<Shallow, Edge>>
    /\ earthquakes = <<Shallow>>

RECURSIVE IsSubseq(_, _)
IsSubseq(a, b) ==
    IF a = <<>> THEN TRUE
    ELSE IF b = <<>> THEN FALSE
    ELSE IF Head(a) = Head(b) THEN IsSubseq(Tail(a), Tail(b))
    ELSE IsSubseq(a, Tail(b))
Count(e, q) == Cardinality({ k \in 1..Len(q) : q[k] = e })

\* C15: the published working set is a subsequence of the responses of its
\* fetch concatenated in arrival order (nothing added, nothing reordered), and
\* nothing is de-duplicated: without a cap an event that the filters keep occurs
\* as often in the working set as in the responses.
C15_OrderPreservingSubsequence ==
    [][\A i \in Invocations :
        Returns(i, "done") =>
            /\ IsSubseq(earthquakes', rawInput')
            /\ ~CapActive(orch[i].p) =>
                  \A e \in Range(rawInput') :
                      Kept(e, orch[i].p) => Count(e, earthquakes') = Count(e, rawInput')]_vars

C15_Witness ==
    /\ loading = FALSE
    /\ IsCustomRange(props)
    /\ props.depthRange = <<0, 100>>
    /\ props.maxCount = NoCount
    /\ rawInput = <<Shallow, Deep, Edge, Shallow>>
    /\ earthquakes = <<Shallow, Edge, Shallow>>

\* ------------------------------------------- claims on the result contract
\* C16: while any fetch is in flight the component shows 'in progress', and it
\* shows 'failed' only if the most recently started fetch failed.
C16_ResultContract ==
    /\ (\E i \in Invocations : Live(orch[i])) => exposed = "in progress"
    /\ exposed = "failed" => (orch # <<>> /\ orch[Len(orch)].pc = "failed")

\* the working set the specification's pipeline makes of a raw input
Published(raw, p) ==
    IF CapActive(p)
    THEN SubSeq(Filtered(raw, p), 1, Min(p.maxCount, Len(Filtered(raw, p))))
    ELSE Filtered(raw, p)

\* C17: when a fetch succeeds the working set becomes the filtered result of
\* that fetch alone: every event in it was fetched by that fetch, and nothing
\* of the working set it replaces is merged in.
C17_FullReplacement ==
    [][\A i \in Invocations :
        Returns(i, "done") =>
            /\ earthquakes' = Published(rawInput', orch[i].p)
            /\ Range(earthquakes') \subseteq Range(rawInput')]_vars

C17_Witness ==
    /\ loading = FALSE
    /\ replaced = <<Shallow, Deep>>
    /\ rawInput = <<Deep, Shallow, Deep>>
    /\ props.magRange = <<20, 50>>
    /\ earthquakes = <<Deep, Deep>>

\* C18: in every state the count reported to Index equals the number of events
\* in the working set.
C18_CountMatchesWorkingSet == earthquakeCount = Len(earthquakes)

C18_Witness ==
    /\ earthquakeCount = 2
    /\ earthquakes = <<Deep, Deep>>
    /\ error # Null
    /\ Len(orch) = 2

\* ---------------------------------------------------------- ranker claims
distanceTo(base, e) == haversineKm(base.lat, base.lon, e.lat, e.lon)
events(ranked) == [ k \in 1..Len(ranked) |-> ranked[k].e ]
Pos(e, q) == CHOOSE k \in 1..Len(q) : q[k] = e /\ \A j \in 1..(k - 1) : q[j] # e

\* out ranks cands against base: every row carries the distance of its event to
\* base, rows ascend, there are min(10, count) of them, each row is a candidate,
\* and no candidate left out is strictly closer than a row
Ranked(out, base, cands) ==
    /\ \A k \in 1..Len(out) : out[k].distKm = distanceTo(base, out[k].e)
    /\ \A k \in 1..(Len(out) - 1) : out[k].distKm <= out[k + 1].distKm
    /\ Len(out) = Min(10, Len(cands))
    /\ \A k \in 1..Len(out) : Count(out[k].e, events(out)) <= Count(out[k].e, cands)
    /\ \A k \in 1..Len(cands) :
          Count(cands[k], events(out)) < Count(cands[k], cands)
            => \A j \in 1..Len(out) : distanceTo(base, cands[k]) >= out[j].distKm

\* C19: the ranking is sorted ascending by distance to the reference, holds
\* min(10, candidate count) rows, and omits no candidate strictly closer than
\* one it includes; in the rows of the table over the list it is handed, and in
\* the click handler's ranking of a regional response.
C19_RankingSortedAndClosest ==
    /\ selectedEq # NoEvent => Ranked(rows, selectedEq, candidates)
    /\ nearestFromApi # NoList =>
          Ranked(byDistance(lastQuery.base, nearestFromApi), lastQuery.base, lastQuery.feats)

\* the table ranks a working set of twelve events around a clicked event
C19_Witness ==
    /\ selectedEq = Edge
    /\ nearestFromApi = NoList
    /\ earthquakes = Cluster
    /\ Len(rows) = 10
    /\ rows[1].e = Edge
    /\ rows[10].distKm > rows[1].distKm

\* in ranking r of candidates c against ref: rows at equal distance keep the
\* order in which their events arrived
TiesKeepArrivalOrder(r, c) ==
    \A i, j \in 1..Len(r) :
        (i < j /\ r[i].distKm = r[j].distKm) => Pos(r[i].e, c) < Pos(r[j].e, c)

\* reference (0,0), candidates (0,1) then (1,0): both ranked, (0,1) first
TieScenario(r, ref, c) ==
    (ref = Edge /\ c = <<Shallow, Deep>>)
      => /\ events(r) = <<Shallow, Deep>>
         /\ r[1].distKm = r[2].distKm

ReferenceAmongCandidates(ref, c) == \E k \in 1..Len(c) : c[k] = ref
ReferenceKept(r, ref) == \E j \in 1..Len(r) : r[j].e = ref /\ r[j].distKm = 0
ZeroDistanceAhead(ref, c) ==
    Cardinality({ k \in 1..(Pos(ref, c) - 1) : distanceTo(ref, c[k]) = 0 })

AlwaysKept(r, ref, c) ==
    /\ TiesKeepArrivalOrder(r, c)
    /\ TieScenario(r, ref, c)
    /\ ReferenceAmongCandidates(ref, c) => ReferenceKept(r, ref)

KeptUnlessCrowdedOut(r, ref, c) ==
    /\ TiesKeepArrivalOrder(r, c)
    /\ TieScenario(r, ref, c)
    /\ (ReferenceAmongCandidates(ref, c) /\ ZeroDistanceAhead(ref, c) < 10)
          => ReferenceKept(r, ref)

\* C20 as stated: ties keep arrival order, and a candidate that is the
\* reference itself is always kept, with distance 0.
C20_ReferenceAlwaysKept ==
    selectedEq # NoEvent => AlwaysKept(rows, selectedEq, candidates)

\* C20: candidates at equal distance keep their arrival order (reference (0,0),
\* candidates (0,1) then (1,0): both ranked, (0,1) first), and a candidate that
\* is the reference itself is kept with distance 0 whenever fewer than ten
\* candidates at distance 0 arrive before it.
C20_StableTies ==
    selectedEq # NoEvent => KeptUnlessCrowdedOut(rows, selectedEq, candidates)

\* the scenario of the claim, from a regional response around the clicked Edge
C20_Witness ==
    /\ selectedEq = Edge
    /\ lastQuery = [base |-> Edge, feats |-> <<Shallow, Deep>>]
    /\ nearestFromApi = <<Shallow, Deep>>
    /\ events(rows) = <<Shallow, Deep>>

\* ------------------------------------------------- regional query claims
\* a step in which a regional query settles as failed
RegionalFailed == Len(regional') < Len(regional) /\ lastQuery' = NoQuery

\* C21: when the regional query of a click fails, no error state is raised
\* (error and loading stay as they were) and the list the table ranks against
\* the selected event is the current working set.
C21_RegionalFailureFallsBack ==
    [][RegionalFailed =>
          /\ error' = error
          /\ loading' = loading
          /\ earthquakes' = earthquakes
          /\ selectedEq' = selectedEq
          /\ candidates' = earthquakes]_vars

\* the only regional query of a click on Edge has failed, after an earlier
\* ranking had been stored: the table ranks the working set
C21_Witness ==
    /\ selectedEq = Edge
    /\ regional = <<>>
    /\ lastQuery = NoQuery
    /\ nearestFromApi = NoList
    /\ error = Null
    /\ earthquakes = <<Shallow, Deep, Edge>>
    /\ events(rows) = <<Edge, Shallow, Deep>>

\* the dialog renders the table for the selected event
Shown == insightsOpen /\ exposed = "succeeded" /\ selectedEq # NoEvent

\* C27: whenever the ranking is shown from a regional result, that result was
\* fetched around the event that is selected now.
C27_RegionalResultMatchesSelection ==
    (Shown /\ nearestFromApi # NoList) => lastQuery.base = selectedEq

\* --------------------------------------------------------- aggregator claims
RECURSIVE SumCounts(_)
SumCounts(q) == IF q = <<>> THEN 0 ELSE Head(q).count + SumCounts(Tail(q))

\* the band of a magnitude in tenths, by the bounds of the claim
BandOf(m) == IF m < 20 THEN 1 ELSE IF m < 40 THEN 2 ELSE IF m < 60 THEN 3 ELSE 4

\* out is the band histogram of d: four entries in the fixed order, each the
\* number of events of d whose magnitude is in its band
BandHistogram(out, d) ==
    /\ Len(out) = 4
    /\ <<out[1].bucket, out[2].bucket, out[3].bucket, out[4].bucket>>
         = <<"<2.0", "2.0-3.9", "4.0-5.9", "6.0+">>
    /\ \A n \in 1..4 :
          out[n].count = Cardinality({ k \in 1..Len(d) : BandOf(magNumber(d[k])) = n })
    /\ SumCounts(out) = Len(d)

\* C22: for every event set, empty included, the band output has exactly four
\* entries in the order <2.0, [2.0,4.0), [4.0,6.0), >=6.0; every event counts in
\* exactly one band, 2.0, 4.0 and 6.0 in the higher one; the counts sum to the
\* number of events; magnitudes 1.5, 3.0, 5.5, 6.2 give one event per band.
C22_BandHistogram ==
    /\ BandHistogram(byMagnitudeBucket(data), data)
    /\ data = OnePerBand =>
          \A n \in 1..4 : byMagnitudeBucket(data)[n].count = 1

\* the dialog has received events on the bounds 2.0 and 4.0
C22_Witness ==
    /\ visualizeOpen
    /\ ~vizLoading
    /\ Len(data) = 2
    /\ data[1].mag = 20
    /\ data[2].mag = 40
    /\ byMagnitudeBucket(data)[2].count = 1
    /\ byMagnitudeBucket(data)[3].count = 1

\* the UTC dates of the events of d, as labels
DatesOf(d) == { Ymd(d[k].time \div MsPerDay) : k \in 1..Len(d) }

\* C23: the per-day output has exactly one bucket per distinct UTC date among
\* the events and none for a date without events, each count is the number of
\* events on that date, the buckets are in strictly ascending date order, and
\* the counts sum to the number of events.
C23_DayHistogram ==
    LET out == byDay(data)
    IN  /\ { out[n].day : n \in 1..Len(out) } = DatesOf(data)
        /\ Len(out) = Cardinality(DatesOf(data))
        /\ \A n \in 1..Len(out) :
              out[n].count
                = Cardinality({ k \in 1..Len(data) : Ymd(data[k].time \div MsPerDay) = out[n].day })
        /\ \A n \in 1..(Len(out) - 1) :
              ParseYmd(out[n].day) < ParseYmd(out[n + 1].day)
        /\ SumCounts(out) = Len(data)

\* four events on three dates with a day without events between them, the
\* later date arriving first
C23_Witness ==
    /\ data = OnePerBand
    /\ Len(byDay(data)) = 3
    /\ byDay(data)[1] = [day |-> <<2023, 1, 10>>, count |-> 1]
    /\ byDay(data)[3] = [day |-> <<2023, 1, 13>>, count |-> 2]

\* both fetches for the current parameters have succeeded and the dialog is open
BothSettled ==
    /\ visualizeOpen
    /\ ~vizLoading
    /\ vizNet = <<>>
    /\ \E k \in 1..Len(data) : TRUE
    /\ exposed = "succeeded"
    /\ net = {}

\* C24: the charts aggregate the working set: once the map and the dialog have
\* both loaded for the same parameters, the events fed to the histograms are
\* the filtered, capped working set, and the band counts sum to the reported
\* event count.
C24_AggregatesWorkingSet ==
    BothSettled =>
        /\ [ k \in 1..Len(data) |-> data[k].id ]
             = [ k \in 1..Len(earthquakes) |-> earthquakes[k].id ]
        /\ SumCounts(byMagnitudeBucket(data)) = earthquakeCount

\* ------------------------------------------------------------ overlay claims
\* once stored, the overlay data never changes and is never requested again
StoredForGood ==
    plateData # Null => (plateData' = plateData /\ plateRequests' = plateRequests)

\* C25 as stated: the overlay data is requested at most once in a session, and
\* once stored it is never requested again and never changes.
C25_RequestedAtMostOnce ==
    /\ [](plateRequests <= 1)
    /\ [][StoredForGood]_vars

\* C25: the overlay data is requested only when the overlay is switched on
\* while no data is stored, one request per such switch; it is stored at most
\* once, and once stored it is never requested again and never changes.
C25_StoredOnce ==
    [][/\ StoredForGood
       /\ plateRequests' # plateRequests =>
             /\ plateRequests' = plateRequests + 1
             /\ ~showPlates /\ showPlates'
             /\ plateData = Null
       /\ plateData' # plateData => plateData = Null]_vars

\* the data is stored by the second request, after the first was cancelled by
\* switching the overlay off and on again
C25_Witness ==
    /\ plateData # Null
    /\ plateRequests = 2
    /\ showPlates
    /\ Len(plateNet) = 1
    /\ plateNet[1].cancelled

\* ---------------------------------------------------------- failure frame
\* the working set and the count a successful fetch published last
LastPublished == <<earthquakes, earthquakeCount>>

\* C26: a failed fetch leaves the working set and the reported count as they
\* were (from its start to its failure only error and loading change), so in
\* a failed state the count is still that of the last successful fetch.
C26_FailureKeepsResults ==
    [][/\ (\E i \in Invocations : Returns(i, "failed")) =>
            /\ LastPublished' = LastPublished
            /\ props' = props
            /\ error' \in Failures
            /\ loading' = FALSE
       /\ Len(orch') > Len(orch) => LastPublished' = LastPublished
       /\ LastPublished' # LastPublished =>
            \E i \in Invocations : Returns(i, "done")]_vars

\* the second fetch has failed after the first published two events
C26_Witness ==
    /\ Len(orch) = 2
    /\ orch[1].pc = "done"
    /\ orch[2].pc = "failed"
    /\ exposed = "failed"
    /\ earthquakes = <<Shallow, Deep>>
    /\ earthquakeCount = 2

\* ------------------------------------------------------------ picker claims
\* C28: after a selection with both ends given and from <= to, the stored
\* range has start <= end and its end is at most 5 calendar months after its
\* start.
C28_StoredRangeWithinFiveMonths ==
    (props.dateRange[1] # NoDate /\ props.dateRange[2] # NoDate) =>
        /\ ~DateLess(props.dateRange[2], props.dateRange[1])
        /\ monthDiff(props.dateRange[1], props.dateRange[2]) <= 5

====
